---- MODULE Spec2Model ----
(***************************************************************************)
(* Model of crates/ide_db/src/active_parameter.rs: the three queries       *)
(* ActiveParameter::at_token, callable_for_token and generics_for_token,   *)
(* over a syntax tree (nodes with kinds and text ranges) and the answers   *)
(* of the semantic collaborator (hir::Semantics).                          *)
(***************************************************************************)
EXTENDS Naturals, Sequences, FiniteSets

\* ------------------------------------------------------------------ bounds
\* Nesting depth of the constructs wrapped around the innermost element.
MaxDepth == 2
\* Largest number of arguments in an argument list or generic argument list.
MaxArgs == 2
\* Largest number of parameters of a callable, and of declared generic
\* parameters of a definition.
MaxParams == 2

\* ------------------------------------------------------------- Option<T>
None == <<>>
Some(v) == <<v>>
IsSome(o) == o # <<>>
Unwrap(o) == o[1]

\* ------------------------------------------------------------ syntax tree
\* A syntax element is a record: its SyntaxKind, its children in source
\* order and the length of its text.  Tokens are the elements of a token
\* kind; they have no children.
TokenKinds == {"IDENT", "L_PAREN", "R_PAREN", "COMMA", "DOT", "COLON2",
               "L_ANGLE", "R_ANGLE", "L_CURLY", "R_CURLY"}

\* Expression kinds (ast::Expr::can_cast) and generic argument kinds
\* (ast::GenericArg::can_cast) that occur in the trees of the model.
ExprKinds == {"PATH_EXPR", "CALL_EXPR", "METHOD_CALL_EXPR", "BLOCK_EXPR"}
GenericArgKinds == {"TYPE_ARG", "CONST_ARG", "LIFETIME_ARG", "ASSOC_TYPE_ARG"}

\* Length in bytes of a token's text.
TokenLen(k) == IF k = "COLON2" THEN 2 ELSE 1

\* The length of an element's text is kept in the element, as in the green
\* tree: the length of a token's text, the sum over its children for a node.
TextLen(n) == n.len

RECURSIVE KidsLen(_, _)
\* Sum of the text lengths of the first n elements of ks.
KidsLen(ks, n) == IF n = 0 THEN 0 ELSE KidsLen(ks, n - 1) + TextLen(ks[n])

Tok(k) == [kind |-> k, kids |-> <<>>, len |-> TokenLen(k)]
Node(k, ks) == [kind |-> k, kids |-> ks, len |-> KidsLen(ks, Len(ks))]

\* Elements are addressed by the path of child indices from the root.
RECURSIVE NodeAt(_, _)
NodeAt(n, p) == IF p = <<>> THEN n ELSE NodeAt(n.kids[Head(p)], Tail(p))

RECURSIVE StartOf(_, _)
\* Start offset of the element at path p, relative to the start of n.
StartOf(n, p) == IF p = <<>> THEN 0
                 ELSE KidsLen(n.kids, Head(p) - 1) + StartOf(n.kids[Head(p)], Tail(p))

\* SyntaxNode::text_range / SyntaxToken::text_range
TextRange(root, p) ==
    LET s == StartOf(root, p)
    IN  [start |-> s, end |-> s + TextLen(NodeAt(root, p))]

\* TextRange::contains: the end is exclusive.
Contains(r, offset) == r.start <= offset /\ offset < r.end

\* SyntaxNode::ancestors: the node itself, then its parents up to the root.
Ancestors(p) == [i \in 1..(Len(p) + 1) |-> SubSeq(p, 1, Len(p) + 1 - i)]

\* SyntaxToken::parent
TokenParent(tp) == IF tp = <<>> THEN None ELSE Some(SubSeq(tp, 1, Len(tp) - 1))

\* Indices of the children of n whose kind is in ks, in source order
\* (AstChildren / support::children).
RECURSIVE ChildrenFrom(_, _, _)
ChildrenFrom(n, ks, i) ==
    IF i > Len(n.kids) THEN <<>>
    ELSE IF n.kids[i].kind \in ks THEN <<i>> \o ChildrenFrom(n, ks, i + 1)
    ELSE ChildrenFrom(n, ks, i + 1)
Children(n, ks) == ChildrenFrom(n, ks, 1)

\* support::child: the first child of a kind in ks.
Child(n, ks) == LET c == Children(n, ks) IN IF c = <<>> THEN None ELSE Some(c[1])

\* Iterator::find over the sequence s, as an Option; holds[i] tells whether
\* the predicate holds of s[i].
RECURSIVE FindFrom(_, _, _)
FindFrom(s, holds, i) ==
    IF i > Len(s) THEN None
    ELSE IF holds[i] THEN Some(s[i]) ELSE FindFrom(s, holds, i + 1)
Find(s, holds) == FindFrom(s, holds, 1)

\* Iterator::take_while(..).count(); holds[i] tells whether the predicate
\* holds of the i-th element.
RECURSIVE TakeWhileCountFrom(_, _)
TakeWhileCountFrom(holds, i) ==
    IF i > Len(holds) THEN 0
    ELSE IF holds[i] THEN 1 + TakeWhileCountFrom(holds, i + 1) ELSE 0
TakeWhileCount(holds) == TakeWhileCountFrom(holds, 1)

\* ------------------------------------------------- the trees of the model
\* Constructors for the node shapes the parser produces.
NameRef == Node("NAME_REF", <<Tok("IDENT")>>)
\* A one-segment path; gal is <<>> or a one-element sequence holding the
\* segment's GENERIC_ARG_LIST.
PathOf(gal) == Node("PATH", <<Node("PATH_SEGMENT", <<NameRef>> \o gal)>>)
PathExpr(gal) == Node("PATH_EXPR", <<PathOf(gal)>>)
TypeArg == Node("TYPE_ARG", <<Node("PATH_TYPE", <<PathOf(<<>>)>>)>>)
ConstArg(e) ==
    Node("CONST_ARG",
         <<Node("BLOCK_EXPR", <<Node("STMT_LIST", <<Tok("L_CURLY"), e, Tok("R_CURLY")>>)>>)>>)

RECURSIVE CommaSep(_)
CommaSep(items) ==
    IF Len(items) <= 1 THEN items
    ELSE <<Head(items), Tok("COMMA")>> \o CommaSep(Tail(items))

ArgList(args) == Node("ARG_LIST", <<Tok("L_PAREN")>> \o CommaSep(args) \o <<Tok("R_PAREN")>>)
GenericArgList(args) ==
    Node("GENERIC_ARG_LIST",
         <<Tok("COLON2"), Tok("L_ANGLE")>> \o CommaSep(args) \o <<Tok("R_ANGLE")>>)
CallExpr(callee, args) == Node("CALL_EXPR", <<callee, ArgList(args)>>)
\* gal and al are <<>> or one-element sequences: the parser builds a
\* METHOD_CALL_EXPR on `recv.name` followed by `(` or `::`, so the argument
\* list is missing in `recv.name::<T>`.
MethodCallExpr(recv, gal, al) ==
    Node("METHOD_CALL_EXPR", <<recv, Tok("DOT"), NameRef>> \o gal \o al)

AtomExpr == PathExpr(<<>>)
Rep(n, x) == [i \in 1..n |-> x]

\* A list of pre simple elements, then e, then post simple elements.
Around(pre, e, post, atom) == Rep(pre, atom) \o <<e>> \o Rep(post, atom)

\* How many simple arguments stand before and after the nested element in
\* every list of a tree.
Shapes == {s \in (0..MaxArgs) \X (0..MaxArgs) : s[1] + s[2] + 1 <= MaxArgs}

\* The call-like constructs around expression e: e as an argument of a call
\* and of a method call, e as the callee and as the receiver, and e as the
\* receiver of a method call that has no argument list.
CallFrames(e, s) ==
    { CallExpr(AtomExpr, Around(s[1], e, s[2], AtomExpr)),
      MethodCallExpr(AtomExpr, <<>>, <<ArgList(Around(s[1], e, s[2], AtomExpr))>>),
      CallExpr(e, Rep(s[1] + s[2], AtomExpr)),
      MethodCallExpr(e, <<>>, <<ArgList(Rep(s[1] + s[2], AtomExpr))>>),
      MethodCallExpr(e, <<GenericArgList(<<>>)>>, <<>>) }

RECURSIVE CallsOfDepth(_, _)
\* The expressions made of d nested call-like constructs of shape s.
CallsOfDepth(d, s) ==
    IF d = 0 THEN {AtomExpr}
    ELSE UNION { CallFrames(e, s) : e \in CallsOfDepth(d - 1, s) }

CallTrees == UNION { CallsOfDepth(d, s) : d \in 0..MaxDepth, s \in Shapes }

\* The constructs with a generic argument list around generic argument g:
\* a path and a method call.
GenericFrames(g, s) ==
    LET gal == GenericArgList(Around(s[1], g, s[2], TypeArg))
    IN  { PathExpr(<<gal>>),
          MethodCallExpr(AtomExpr, <<gal>>, <<ArgList(<<>>)>>) }

\* The same constructs with an empty generic argument list.
EmptyGenericLists ==
    { PathExpr(<<GenericArgList(<<>>)>>),
      MethodCallExpr(AtomExpr, <<GenericArgList(<<>>)>>, <<ArgList(<<>>)>>) }

RECURSIVE GenericsOfDepth(_, _)
\* The expressions made of d nested generic argument lists of shape s, the
\* innermost one a list of types or of one expression.
GenericsOfDepth(d, s) ==
    IF d = 0 THEN {AtomExpr}
    ELSE IF d = 1
    THEN EmptyGenericLists \cup GenericFrames(TypeArg, s)
         \cup GenericFrames(ConstArg(AtomExpr), s)
    ELSE UNION { GenericFrames(ConstArg(e), s) : e \in GenericsOfDepth(d - 1, s) }

GenericTrees == UNION { GenericsOfDepth(d, s) : d \in 0..MaxDepth, s \in Shapes }

RECURSIVE TokenPaths(_)
\* The paths of the tokens of n.
TokenPaths(n) ==
    IF n.kind \in TokenKinds THEN {<<>>}
    ELSE UNION { { <<i>> \o p : p \in TokenPaths(n.kids[i]) } : i \in 1..Len(n.kids) }

\* --------------------------------------------------------------- ast API
\* ast::CallableExpr::cast: a CallExpr or a MethodCallExpr.
CallableExprCast(n) == n.kind \in {"CALL_EXPR", "METHOD_CALL_EXPR"}

\* HasArgList::arg_list of the node at p: the path of its ARG_LIST child.
ArgListOf(rt, p) ==
    LET c == Child(NodeAt(rt, p), {"ARG_LIST"})
    IN  IF IsSome(c) THEN Some(Append(p, Unwrap(c))) ELSE None

\* ArgList::args of the list at lp: the paths of its expressions, in order.
Args(rt, lp) ==
    LET c == Children(NodeAt(rt, lp), ExprKinds)
    IN  [i \in 1..Len(c) |-> Append(lp, c[i])]

\* GenericArgList::generic_args of the list at lp.
GenericArgs(rt, lp) ==
    LET c == Children(NodeAt(rt, lp), GenericArgKinds)
    IN  [i \in 1..Len(c) |-> Append(lp, c[i])]

\* CallExpr::expr of the call at p: the path of its first expression child.
CallExprExpr(rt, p) ==
    LET c == Child(NodeAt(rt, p), ExprKinds)
    IN  IF IsSome(c) THEN Some(Append(p, Unwrap(c))) ELSE None

\* ------------------------------------------------ the semantic collaborator
\* hir::Callable is opaque to this file: it is identified by the query that
\* produced it ("type" for a callee's type, "method" for a method call) and
\* the syntax element the query was about.
Callable(how, of) == [how |-> how, of |-> of]

\* A hir::Type, as far as Type::as_callable looks at it.
UnitType == [as_callable |-> None]
FnType(of) == [as_callable |-> Some(Callable("type", of))]
AsCallable(ty) == ty.as_callable

\* hir::TypeInfo and TypeInfo::adjusted (adjusted.unwrap_or(original)).
TypeInfo(original, adjusted) == [original |-> original, adjusted |-> adjusted]
Adjusted(ti) == IF IsSome(ti.adjusted) THEN Unwrap(ti.adjusted) ELSE ti.original

\* The answers Semantics::type_of_expr can give for the expression at e: no
\* type, a type that is not callable, a callable type, and a type that is
\* callable only once adjusted.
TypeAnswers(e) ==
    { None,
      Some(TypeInfo(UnitType, None)),
      Some(TypeInfo(FnType(e), None)),
      Some(TypeInfo(UnitType, Some(FnType(e)))) }

\* The answers Semantics::resolve_method_call_as_callable can give for the
\* method call at p.
MethodCallableAnswers(p) == { None, Some(Callable("method", p)) }

\* The ancestors of the token that are of kind k.
AncestorsOfKind(rt, tp, k) ==
    { p \in { SubSeq(tp, 1, n) : n \in 0..(Len(tp) - 1) } : NodeAt(rt, p).kind = k }
NoAnswers == <<>>

\* Callable::params gives, per parameter, its pattern (if the declaration
\* has one) and its type.  Either<ast::SelfParam, ast::Pat>:
Left(v) == [side |-> "Left", value |-> v]
Right(v) == [side |-> "Right", value |-> v]
SelfParam == [kind |-> "SELF_PARAM", name |-> None]
\* ast::Pat: an identifier pattern with its name, and a pattern of another
\* kind.
Pats == { [kind |-> "IDENT_PAT", name |-> Some("a")],
          [kind |-> "TUPLE_PAT", name |-> None] }
\* The parameters of a callable that is not a function (a closure, a
\* function pointer) have no patterns; each parameter of a function has one,
\* and only the first can be the receiver.  The type of a parameter is
\* opaque: it is identified by its position.
PatsAt(i) == { Right(pt) : pt \in Pats } \cup (IF i = 1 THEN {Left(SelfParam)} ELSE {})
ParamsOfLen(n) ==
    { [i \in 1..n |-> [pat |-> None, ty |-> i]] }
    \cup { [i \in 1..n |-> [pat |-> Some(f[i]), ty |-> i]] :
             f \in { g \in [1..n -> PatsAt(1)] : \A i \in 1..n : g[i] \in PatsAt(i) } }
ParamLists == UNION { ParamsOfLen(n) : n \in 0..MaxParams }

\* ---------------------------------------------------- callable_for_token
\* Faulty variant of ArgListContainsToken: a node without argument list matches
\* (map_or(true, ..)).
ArgListContainsTokenOrAbsent(rt, p, tp) ==
    LET al == ArgListOf(rt, p)
    IN  IF IsSome(al)
        THEN Contains(TextRange(rt, Unwrap(al)), TextRange(rt, tp).start)
        ELSE TRUE

\* Faulty variant of ArgListContainsToken: the range of the whole call is tested
\* instead of the range of its argument list.
CallContainsToken(rt, p, tp) ==
    IsSome(ArgListOf(rt, p)) /\ Contains(TextRange(rt, p), TextRange(rt, tp).start)

\* The token's start offset is inside the argument list of the call-like
\* node at p; false when the node has no argument list.
ArgListContainsToken(rt, p, tp) ==
    LET al == ArgListOf(rt, p)
    IN  IF IsSome(al)
        THEN Contains(TextRange(rt, Unwrap(al)), TextRange(rt, tp).start)
        ELSE FALSE

\* Faulty variant of EndsBeforeToken: strictly before.
EndsStrictlyBeforeToken(rt, p, tp) == TextRange(rt, p).end < TextRange(rt, tp).start

\* The node at p ends at or before the start of the token.
EndsBeforeToken(rt, p, tp) == TextRange(rt, p).end <= TextRange(rt, tp).start

\* Faulty variant of SearchOrder: the outermost ancestor first.
SearchOrderOutermostFirst(parent) == [i \in 1..(Len(parent) + 1) |-> SubSeq(parent, 1, i - 1)]

\* The order in which the ancestors of the token's parent are searched.
SearchOrder(parent) == Ancestors(parent)

\* The calling expression: the first call-like ancestor of the token's
\* parent whose argument list contains the token.
CallingNode(rt, tp) ==
    LET parent == TokenParent(tp)
    IN  IF ~IsSome(parent) THEN None
        ELSE LET anc == SearchOrder(Unwrap(parent))
             IN  Find(anc, [i \in 1..Len(anc) |->
                               /\ CallableExprCast(NodeAt(rt, anc[i]))
                               /\ ArgListContainsToken(rt, anc[i], tp)])

\* The callable of the calling node at p.
ResolveCallable(rt, p, sema) ==
    IF NodeAt(rt, p).kind = "CALL_EXPR"
    THEN LET expr == CallExprExpr(rt, p)
         IN  IF ~IsSome(expr) THEN None
             ELSE LET ti == sema.type_of_expr[Unwrap(expr)]
                  IN  IF ~IsSome(ti) THEN None
                      ELSE AsCallable(Adjusted(Unwrap(ti)))
    ELSE sema.resolve_method_call_as_callable[p]

\* The index of the argument the token is in.
ActiveParam(rt, p, tp) ==
    LET al == ArgListOf(rt, p)
    IN  IF IsSome(al)
        THEN LET args == Args(rt, Unwrap(al))
             IN  Some(TakeWhileCount([i \in 1..Len(args) |->
                                         EndsBeforeToken(rt, args[i], tp)]))
        ELSE None

\* Faulty variant of CallableOf: when the calling node does not resolve, the
\* enclosing calls further out are tried.
CallableOfWithFallback(rt, tp, sema, cn) ==
    IF ~IsSome(cn) THEN None
    ELSE LET anc == Ancestors(Unwrap(cn))
             resolving ==
                 Find(anc, [i \in 1..Len(anc) |->
                               /\ CallableExprCast(NodeAt(rt, anc[i]))
                               /\ ArgListContainsToken(rt, anc[i], tp)
                               /\ IsSome(ResolveCallable(rt, anc[i], sema))])
         IN  IF IsSome(resolving) THEN ResolveCallable(rt, Unwrap(resolving), sema) ELSE None

\* The callable of the calling node cn, if any.
CallableOf(rt, tp, sema, cn) ==
    IF ~IsSome(cn) THEN None ELSE ResolveCallable(rt, Unwrap(cn), sema)

callable_for_token(rt, tp, sema) ==
    LET cn == CallingNode(rt, tp)
        callable == CallableOf(rt, tp, sema, cn)
    IN  IF ~IsSome(callable) THEN None
        ELSE Some([callable |-> Unwrap(callable),
                   active_param |-> ActiveParam(rt, Unwrap(cn), tp)])

\* ------------------------------------------------------ ActiveParameter
\* Faulty variant of InBounds: off by one.
InBoundsInclusive(idx, params) == idx <= Len(params)

\* The bounds check of at_token.
InBounds(idx, params) == idx < Len(params)

\* Vec::swap_remove: the element at index idx (from 0), or a panic when idx
\* is out of bounds.
SwapRemove(v, idx) == IF idx < Len(v) THEN Some(v[idx + 1]) ELSE None

\* Faulty variant of Bind: only an ordinary pattern makes an ActiveParameter.
BindOrdinaryPattern(param) ==
    IF IsSome(param.pat) /\ Unwrap(param.pat).side = "Right"
    THEN Some([ty |-> param.ty, pat |-> Unwrap(param.pat)])
    ELSE None

\* pat.map(|pat| ActiveParameter { ty, pat })
Bind(param) ==
    IF IsSome(param.pat)
    THEN Some([ty |-> param.ty, pat |-> Unwrap(param.pat)])
    ELSE None

Outcome(result, mark, panicked) ==
    [result |-> result, too_many_arguments |-> mark, panicked |-> panicked]

\* ActiveParameter::at_token after its call of callable_for_token, whose
\* result is r: the result, whether the coverage mark too_many_arguments was
\* hit, and whether the call panicked.
ParameterAt(r, sema) ==
    IF ~IsSome(r) THEN Outcome(None, FALSE, FALSE)
    ELSE IF ~IsSome(Unwrap(r).active_param) THEN Outcome(None, FALSE, FALSE)
    ELSE LET idx == Unwrap(Unwrap(r).active_param)
             params == sema.params[Unwrap(r).callable]
         IN  IF ~InBounds(idx, params) THEN Outcome(None, TRUE, FALSE)
             ELSE LET removed == SwapRemove(params, idx)
                  IN  IF ~IsSome(removed) THEN Outcome(None, FALSE, TRUE)
                      ELSE Outcome(Bind(Unwrap(removed)), FALSE, FALSE)

\* ActiveParameter::at_token(sema, token)
at_token(rt, tp, sema) == ParameterAt(callable_for_token(rt, tp, sema), sema)

\* ActiveParameter::ident
ident(ap) ==
    IF ap.pat.side = "Right" /\ ap.pat.value.kind = "IDENT_PAT"
    THEN ap.pat.value.name
    ELSE None


\* ---------------------------------------------------- generics_for_token
\* hir::PathResolution, with ModuleDef and AssocItem spelled out.
GenericResolutions ==
    {"Def::Adt", "Def::Function", "Def::Trait", "Def::TypeAlias", "Def::Variant",
     "AssocItem::Function", "AssocItem::TypeAlias"}
OtherResolutions ==
    {"Def::BuiltinType", "Def::Const", "Def::Macro", "Def::Module", "Def::Static",
     "AssocItem::Const", "BuiltinAttr", "ToolModule", "Local", "TypeParam",
     "ConstParam", "SelfType"}

\* A definition is opaque: it is identified by the syntax element that
\* resolves to it, and declares generic_params generic parameters.
Item(of, n) == [of |-> of, generic_params |-> n]
PathResolution(k, item) == [kind |-> k, item |-> item]

\* The answers Semantics::resolve_path can give for the path at p.
PathAnswers(p) ==
    {None}
    \cup { Some(PathResolution(k, Item(p, n))) : k \in GenericResolutions, n \in 0..MaxParams }
    \cup { Some(PathResolution(k, Item(p, 0))) : k \in OtherResolutions }

\* The answers Semantics::resolve_method_call can give for the call at p.
MethodAnswers(p) == {None} \cup { Some(Item(p, n)) : n \in 0..MaxParams }

\* hir::GenericDef
GenericDef(variant, item) == [variant |-> variant, item |-> item]

\* Faulty variant of IntoGenericDef: a constant is taken for a generic definition.
IntoGenericDefOrConst(res) ==
    CASE res.kind = "Def::Adt" -> Some(GenericDef("Adt", res.item))
      [] res.kind = "Def::Function" -> Some(GenericDef("Function", res.item))
      [] res.kind = "Def::Trait" -> Some(GenericDef("Trait", res.item))
      [] res.kind = "Def::TypeAlias" -> Some(GenericDef("TypeAlias", res.item))
      [] res.kind = "Def::Variant" -> Some(GenericDef("Variant", res.item))
      [] res.kind = "Def::Const" -> Some(GenericDef("Const", res.item))
      [] res.kind \in {"Def::BuiltinType", "Def::Macro", "Def::Module", "Def::Static"} -> None
      [] res.kind = "AssocItem::Function" -> Some(GenericDef("Function", res.item))
      [] res.kind = "AssocItem::TypeAlias" -> Some(GenericDef("TypeAlias", res.item))
      [] res.kind = "AssocItem::Const" -> None
      [] res.kind \in {"BuiltinAttr", "ToolModule", "Local", "TypeParam", "ConstParam",
                       "SelfType"} -> None

\* The match on the path resolution: the From impls into GenericDef, or
\* None for the arms that return None.
IntoGenericDef(res) ==
    CASE res.kind = "Def::Adt" -> Some(GenericDef("Adt", res.item))
      [] res.kind = "Def::Function" -> Some(GenericDef("Function", res.item))
      [] res.kind = "Def::Trait" -> Some(GenericDef("Trait", res.item))
      [] res.kind = "Def::TypeAlias" -> Some(GenericDef("TypeAlias", res.item))
      [] res.kind = "Def::Variant" -> Some(GenericDef("Variant", res.item))
      [] res.kind \in {"Def::BuiltinType", "Def::Const", "Def::Macro", "Def::Module",
                       "Def::Static"} -> None
      [] res.kind = "AssocItem::Function" -> Some(GenericDef("Function", res.item))
      [] res.kind = "AssocItem::TypeAlias" -> Some(GenericDef("TypeAlias", res.item))
      [] res.kind = "AssocItem::Const" -> None
      [] res.kind \in {"BuiltinAttr", "ToolModule", "Local", "TypeParam", "ConstParam",
                       "SelfType"} -> None

\* The generic argument list: the first ancestor of the token's parent that
\* is a GenericArgList containing the token's start.
GenericArgListOf(rt, tp) ==
    LET parent == TokenParent(tp)
    IN  IF ~IsSome(parent) THEN None
        ELSE LET anc == Ancestors(Unwrap(parent))
             IN  Find(anc, [i \in 1..Len(anc) |->
                               /\ NodeAt(rt, anc[i]).kind = "GENERIC_ARG_LIST"
                               /\ Contains(TextRange(rt, anc[i]), TextRange(rt, tp).start)])

\* The index of the generic argument the token is in.
ActiveGenericParam(rt, lp, tp) ==
    LET args == GenericArgs(rt, lp)
    IN  TakeWhileCount([i \in 1..Len(args) |-> EndsBeforeToken(rt, args[i], tp)])

\* arg_list.syntax().ancestors().find_map(ast::Path::cast)
PathAbove(rt, lp) ==
    LET anc == Ancestors(lp)
    IN  Find(anc, [i \in 1..Len(anc) |-> NodeAt(rt, anc[i]).kind = "PATH"])

\* arg_list.syntax().parent().and_then(ast::MethodCallExpr::cast)
MethodCallParent(rt, lp) ==
    IF lp = <<>> THEN None
    ELSE LET pp == SubSeq(lp, 1, Len(lp) - 1)
         IN  IF NodeAt(rt, pp).kind = "METHOD_CALL_EXPR" THEN Some(pp) ELSE None

\* Faulty variant of GenericsResult: the index is checked against the number of
\* generic parameters the definition declares.
GenericsResultInBounds(generic_def, active_param) ==
    IF active_param < generic_def.item.generic_params
    THEN Some([generic_def |-> generic_def, active_param |-> active_param])
    ELSE None

\* The result for the located list and index.
GenericsResult(generic_def, active_param) ==
    Some([generic_def |-> generic_def, active_param |-> active_param])

\* The syntactic part of generics_for_token: the located list, the index,
\* the path around the list and the method call it is the child of; None
\* when the token is in no generic argument list.
GenericsLocated(rt, tp) ==
    LET arg_list == GenericArgListOf(rt, tp)
    IN  IF ~IsSome(arg_list) THEN None
        ELSE Some([arg_list |-> Unwrap(arg_list),
                   active_param |-> ActiveGenericParam(rt, Unwrap(arg_list), tp),
                   path |-> PathAbove(rt, Unwrap(arg_list)),
                   method_call |-> MethodCallParent(rt, Unwrap(arg_list))])

\* The semantic part: the resolution of the path if there is one, else of
\* the method call.
GenericsResolved(loc, sema) ==
    IF ~IsSome(loc) THEN None
    ELSE LET path == Unwrap(loc).path
             method_call == Unwrap(loc).method_call
             active_param == Unwrap(loc).active_param
         IN  IF IsSome(path)
             THEN LET res == sema.resolve_path[Unwrap(path)]
                  IN  IF ~IsSome(res) THEN None
                      ELSE LET generic_def == IntoGenericDef(Unwrap(res))
                           IN  IF ~IsSome(generic_def) THEN None
                               ELSE GenericsResult(Unwrap(generic_def), active_param)
             ELSE IF IsSome(method_call)
             THEN LET method == sema.resolve_method_call[Unwrap(method_call)]
                  IN  IF ~IsSome(method) THEN None
                      ELSE GenericsResult(GenericDef("Function", Unwrap(method)),
                                          active_param)
             ELSE None

\* generics_for_token(sema, token)
generics_for_token(rt, tp, sema) == GenericsResolved(GenericsLocated(rt, tp), sema)

\* ------------------------------------------------------------ the queries
\* The semantic snapshot a query runs against: the collaborator's answers
\* for the elements of the tree the query can ask about.  A maps each
\* element to the answers possible for it.
Answers(A) ==
    { f \in [DOMAIN A -> UNION { A[d] : d \in DOMAIN A }] : \A d \in DOMAIN A : f[d] \in A[d] }

Sema(toe, mc, ps, rp, rm) ==
    [type_of_expr |-> toe, resolve_method_call_as_callable |-> mc, params |-> ps,
     resolve_path |-> rp, resolve_method_call |-> rm]

\* Answers about the call-like elements at the paths in calls: the types
\* of the callees of the calls, the callables of the method calls.
CallSemasFor(rt, calls) ==
    { Sema(toe, mc, NoAnswers, NoAnswers, NoAnswers) :
        toe \in Answers([e \in { Unwrap(CallExprExpr(rt, p)) :
                                   p \in { q \in calls : NodeAt(rt, q).kind = "CALL_EXPR" } }
                           |-> TypeAnswers(e)]),
        mc \in Answers([p \in { q \in calls : NodeAt(rt, q).kind = "METHOD_CALL_EXPR" }
                          |-> MethodCallableAnswers(p)]) }

\* Answers about every call-like ancestor of the token.
CallSemas(rt, tp) ==
    CallSemasFor(rt, AncestorsOfKind(rt, tp, "CALL_EXPR")
                     \cup AncestorsOfKind(rt, tp, "METHOD_CALL_EXPR"))

\* Answers about the calling node cn alone.
CallingNodeSemas(rt, cn) == CallSemasFor(rt, IF IsSome(cn) THEN {Unwrap(cn)} ELSE {})

\* The callables whose parameters at_token asks for, r being the result of
\* callable_for_token.
ParamsAsked(r) ==
    IF IsSome(r) /\ IsSome(Unwrap(r).active_param) THEN {Unwrap(r).callable} ELSE {}

\* Answers about the path around the located generic argument list and
\* about the method call that list is the child of.
GenericSemas(loc) ==
    LET paths == IF IsSome(loc) /\ IsSome(Unwrap(loc).path)
                 THEN {Unwrap(Unwrap(loc).path)} ELSE {}
        calls == IF IsSome(loc) /\ IsSome(Unwrap(loc).method_call)
                 THEN {Unwrap(Unwrap(loc).method_call)} ELSE {}
    IN  { Sema(NoAnswers, NoAnswers, NoAnswers, rp, rm) :
            rp \in Answers([p \in paths |-> PathAnswers(p)]),
            rm \in Answers([p \in calls |-> MethodAnswers(p)]) }

NoSema == Sema(NoAnswers, NoAnswers, NoAnswers, NoAnswers, NoAnswers)

\* root and token: the syntax tree and the path of the token in it.
\* op: the query made, "none" before it; sema: the snapshot it ran
\* against; out: what it returned.
VARIABLES root, token, op, sema, out
vars == <<root, token, op, sema, out>>

NoQuery == op = "none" /\ sema = NoSema /\ out = None

InitCalls == root \in CallTrees /\ token \in TokenPaths(root) /\ NoQuery
InitGenerics == root \in GenericTrees /\ token \in TokenPaths(root) /\ NoQuery
Init == InitCalls \/ InitGenerics

\* callable_for_token(sema, token)
CallableForToken ==
    /\ op = "none"
    /\ \E s \in CallSemas(root, token) :
        /\ op' = "callable_for_token"
        /\ sema' = s
        /\ out' = callable_for_token(root, token, s)
        /\ UNCHANGED <<root, token>>

\* ActiveParameter::at_token(sema, token): callable_for_token, then the
\* parameters of the callable it returned.
AtToken ==
    /\ op = "none"
    /\ \E s \in CallingNodeSemas(root, CallingNode(root, token)) :
        \E r \in {callable_for_token(root, token, s)} :
            \E ps \in Answers([c \in ParamsAsked(r) |-> ParamLists]) :
                /\ op' = "at_token"
                /\ sema' = [s EXCEPT !.params = ps]
                /\ out' = ParameterAt(r, sema')
                /\ UNCHANGED <<root, token>>

\* ActiveParameter::ident(&self), on the parameter at_token returned
Ident ==
    /\ op = "at_token"
    /\ IsSome(out.result)
    /\ op' = "ident"
    /\ out' = [active_parameter |-> Unwrap(out.result), name |-> ident(Unwrap(out.result))]
    /\ UNCHANGED <<root, token, sema>>

\* generics_for_token(sema, token)
GenericsForToken ==
    /\ op = "none"
    /\ \E loc \in {GenericsLocated(root, token)} :
        \E s \in GenericSemas(loc) :
            /\ op' = "generics_for_token"
            /\ sema' = s
            /\ out' = GenericsResolved(loc, s)
            /\ UNCHANGED <<root, token>>

NextCalls == CallableForToken \/ AtToken \/ Ident
NextGenerics == GenericsForToken
Next == CallableForToken \/ GenericsForToken

\* The call queries on the trees of call-like constructs.
SpecCalls == InitCalls /\ [][NextCalls]_vars
\* The generic query on the trees of generic argument lists.
SpecGenerics == InitGenerics /\ [][NextGenerics]_vars
\* The two queries that compute an index, on all the trees.
Spec == Init /\ [][Next]_vars


\* ======================================================================
\* Properties.  The definitions below describe the tree around the token
\* by sets, independently of the search the queries perform.
\* ======================================================================
TokStart == TextRange(root, token).start
KindAt(p) == NodeAt(root, p).kind
\* The nodes the token is inside of.
Enclosing == { SubSeq(token, 1, n) : n \in 0..(Len(token) - 1) }
CallLike == { p \in Enclosing : KindAt(p) \in {"CALL_EXPR", "METHOD_CALL_EXPR"} }
\* The children of the node at p that are of a kind in ks.
KidsOfKind(p, ks) ==
    LET kids == NodeAt(root, p).kids
    IN  { Append(p, i) : i \in { j \in 1..Len(kids) : kids[j].kind \in ks } }
\* The call-like nodes around the token whose argument list contains the
\* token's start offset.
EnclosingCalls ==
    LET start == TokStart
    IN  { p \in CallLike : \E l \in KidsOfKind(p, {"ARG_LIST"}) :
                              Contains(TextRange(root, l), start) }
\* The call-like nodes the token is in the callee part of (the callee, the
\* receiver or the method name).
CalleeHolders ==
    { p \in CallLike : NodeAt(root, p).kids[token[Len(p) + 1]].kind
                          \notin {"ARG_LIST", "GENERIC_ARG_LIST"} }
\* The generic argument lists around the token that contain its start.
EnclosingGenericLists ==
    LET start == TokStart
    IN  { p \in Enclosing : KindAt(p) = "GENERIC_ARG_LIST"
                            /\ Contains(TextRange(root, p), start) }
\* The innermost of the nodes in S, all of them around the token.
MaxLen(S) == CHOOSE n \in { Len(p) : p \in S } : \A q \in S : Len(q) <= n
Innermost(S) == SubSeq(token, 1, MaxLen(S))
\* What the collaborator answers for the call-like node at p.
ResolutionOf(p) ==
    IF KindAt(p) = "CALL_EXPR"
    THEN LET exprs == { e[Len(e)] : e \in KidsOfKind(p, ExprKinds) }
             ti == sema.type_of_expr[Append(p, CHOOSE i \in exprs : \A j \in exprs : i <= j)]
         IN  IF ti = None THEN None
             ELSE IF ti[1].adjusted = None THEN ti[1].original.as_callable
             ELSE ti[1].adjusted[1].as_callable
    ELSE sema.resolve_method_call_as_callable[p]
\* The arguments (children of a kind in ks) of the list at l, and those that
\* end at or before the token's start.
Completed(l, ks) ==
    LET start == TokStart
    IN  { a \in KidsOfKind(l, ks) : TextRange(root, a).end <= start }
\* The argument list of the call-like node at p.
TheArgList(p) == CHOOSE l \in KidsOfKind(p, {"ARG_LIST"}) : TRUE
\* The call-like node a callable was resolved for.
SiteOf(c) == IF c.how = "method" THEN c.of ELSE SubSeq(c.of, 1, Len(c.of) - 1)

\* C1: the callable returned by callable_for_token is the one of the
\* innermost call-like ancestor of the token whose argument list contains
\* the token's start offset (for f(g(x)) with the token in x: g's, never
\* f's); without such an ancestor the result is none.
C1_InnermostCall ==
    op = "callable_for_token" =>
        LET calls == EnclosingCalls
        IN  IF calls = {} THEN out = None
            ELSE IsSome(out) => ResolutionOf(Innermost(calls)) = Some(out[1].callable)

\* C1 witness: a token in the argument lists of two nested calls that both
\* resolve, and a callable returned.
C1_Witness ==
    /\ op = "callable_for_token"
    /\ IsSome(out)
    /\ LET calls == EnclosingCalls
       IN  Cardinality(calls) >= 2 /\ \A p \in calls : IsSome(ResolutionOf(p))

\* C2: the index returned by callable_for_token and by generics_for_token
\* is the number of arguments of the located list that end at or before the
\* token's start, counted over the whole list; 0 for an empty list.
C2_ActiveIndex ==
    /\ (op = "callable_for_token" /\ IsSome(out)) =>
          LET calls == EnclosingCalls
          IN  /\ calls # {}
              /\ out[1].active_param
                   = Some(Cardinality(Completed(TheArgList(Innermost(calls)), ExprKinds)))
    /\ (op = "generics_for_token" /\ IsSome(out)) =>
          LET lists == EnclosingGenericLists
          IN  /\ lists # {}
              /\ out[1].active_param
                   = Cardinality(Completed(Innermost(lists), GenericArgKinds))

\* C2 witness: callable_for_token returns index 1 for a list of at least two
\* arguments, the token being right after the first argument.
C2_Witness ==
    /\ op = "callable_for_token"
    /\ IsSome(out)
    /\ out[1].active_param = Some(1)
    /\ LET args == KidsOfKind(TheArgList(Innermost(EnclosingCalls)), ExprKinds)
       IN  Cardinality(args) >= 2 /\ \E a \in args : TextRange(root, a).end = TokStart

\* The index of the token in the argument list of the innermost enclosing
\* call, and the parameters at_token was given for the callable.
ActiveIndex == Cardinality(Completed(TheArgList(Innermost(EnclosingCalls)), ExprKinds))
ParamsGiven == DOMAIN sema.params # {}
Params == sema.params[CHOOSE c \in DOMAIN sema.params : TRUE]

\* C3: at_token returns an ActiveParameter only for an index below the
\* number of parameters of the callable; for an index at or above it the
\* result is none, by the branch marked too_many_arguments, and at_token
\* never panics.
C3_IndexInBounds ==
    op = "at_token" =>
        /\ ~out.panicked
        /\ out.too_many_arguments => out.result = None
        /\ IF ParamsGiven
           THEN LET idx == ActiveIndex
                IN  /\ IsSome(out.result) => idx < Len(Params)
                    /\ out.too_many_arguments <=> idx >= Len(Params)
           ELSE out.result = None /\ ~out.too_many_arguments

\* C3 witness: more arguments than the parameters of a callable that has
\* some, and the too_many_arguments branch taken.
C3_Witness ==
    /\ op = "at_token"
    /\ ParamsGiven
    /\ Len(Params) >= 1
    /\ ActiveIndex >= Len(Params)
    /\ out.too_many_arguments
    /\ out.result = None

\* C4 as claimed: with the index in bounds, at_token returns the parameter
\* at the index and its type, but no ActiveParameter when that parameter is
\* the receiver (self).
C4_ReceiverExcluded ==
    (op = "at_token" /\ ParamsGiven) =>
        LET idx == ActiveIndex
        IN  idx < Len(Params) =>
              LET prm == Params[idx + 1]
              IN  IF IsSome(prm.pat) /\ prm.pat[1].side = "Right"
                  THEN out.result = Some([ty |-> prm.ty, pat |-> prm.pat[1]])
                  ELSE out.result = None

\* C4 amended: with the index in bounds, at_token returns the parameter at
\* the index and its type whenever the parameter has a pattern, the
\* receiver (self) included, and none only when it has no pattern; ident
\* gives the name of an identifier pattern and nothing for the receiver or
\* another pattern.
C4_ParameterAtIndex ==
    /\ (op = "at_token" /\ ParamsGiven) =>
          LET idx == ActiveIndex
          IN  idx < Len(Params) =>
                LET prm == Params[idx + 1]
                IN  IF IsSome(prm.pat)
                    THEN out.result = Some([ty |-> prm.ty, pat |-> prm.pat[1]])
                    ELSE out.result = None
    /\ op = "ident" =>
          LET pat == out.active_parameter.pat
          IN  IF pat.side = "Right" /\ pat.value.kind = "IDENT_PAT"
              THEN out.name = pat.value.name
              ELSE out.name = None

\* C4 witness: the parameter at the index is the receiver, and at_token
\* returns it.
C4_Witness ==
    /\ op = "at_token"
    /\ ParamsGiven
    /\ IsSome(out.result)
    /\ out.result[1].pat.side = "Left"
    /\ Params[ActiveIndex + 1].pat = Some(Left(SelfParam))

\* C5 as claimed: for a token in the callee of a call-like expression,
\* callable_for_token returns none.
C5_CalleeTokenNone ==
    (op = "callable_for_token" /\ CalleeHolders # {}) => out = None

\* C5 amended: a call-like ancestor whose callee part (callee, receiver or
\* method name) holds the token never has the token in its argument list,
\* so it is skipped.  The result for such a token is decided by the
\* innermost call-like ancestor whose argument list contains the token's
\* start: none when there is no such ancestor, none when that ancestor does
\* not resolve, and otherwise the callable of that ancestor, which is none
\* of the skipped calls, with the number of its arguments that end at or
\* before the token's start (for g(f(x)) with the token on f: the callable
\* of g with index 0 if g resolves, none if it does not; for f(a)(b) with
\* the token on a: the callable of f(a)).
C5_CalleeCallSkipped ==
    op = "callable_for_token" =>
        LET holders == CalleeHolders
        IN  holders # {} =>
              LET calls == EnclosingCalls
              IN  /\ calls \cap holders = {}
                  /\ IF calls = {} THEN out = None
                     ELSE LET site == Innermost(calls)
                              inner == ResolutionOf(site)
                          IN  IF ~IsSome(inner) THEN out = None
                              ELSE /\ IsSome(out)
                                   /\ out[1].callable = inner[1]
                                   /\ SiteOf(out[1].callable) = site
                                   /\ site \notin holders
                                   /\ out[1].active_param
                                        = Some(Cardinality(Completed(TheArgList(site),
                                                                     ExprKinds)))

\* C5 witness: the token is in the callee part of a call that resolves and
\* has an argument list, a call further out has the token in its argument
\* list and resolves, and the callable of the outer call is returned.
C5_Witness ==
    /\ op = "callable_for_token"
    /\ IsSome(out)
    /\ \E p \in CalleeHolders :
          /\ IsSome(ResolutionOf(p))
          /\ KidsOfKind(p, {"ARG_LIST"}) # {}
          /\ Len(SiteOf(out[1].callable)) < Len(p)
          /\ SiteOf(out[1].callable) \in EnclosingCalls

\* The paths the generic argument list at l is inside of, its parent, and
\* the index of the token in it.
PathsAbove(l) == { p \in { SubSeq(l, 1, n) : n \in 0..Len(l) } : KindAt(p) = "PATH" }
ParentOf(l) == SubSeq(l, 1, Len(l) - 1)

\* C6: for recv.method::<T>() and a token at T, wherever the method call
\* stands in the tree, generics_for_token returns the function the method
\* call resolves to, with index 0, provided the method call resolves.
C6_MethodGenerics ==
    op = "generics_for_token" =>
        LET lists == EnclosingGenericLists
        IN  lists # {} =>
              LET l == Innermost(lists)
                  call == ParentOf(l)
              IN  (/\ KindAt(call) = "METHOD_CALL_EXPR"
                   /\ Cardinality(KidsOfKind(l, GenericArgKinds)) = 1
                   /\ \E a \in KidsOfKind(l, {"TYPE_ARG"}) : a \in Enclosing
                   /\ IsSome(sema.resolve_method_call[call]))
                  => out = Some([generic_def |->
                                     GenericDef("Function", sema.resolve_method_call[call][1]),
                                 active_param |-> 0])

\* The GenericDef variant each generic-bearing resolution kind converts to.
VariantOf(k) ==
    CASE k \in {"Def::Adt"} -> "Adt"
      [] k \in {"Def::Function", "AssocItem::Function"} -> "Function"
      [] k \in {"Def::Trait"} -> "Trait"
      [] k \in {"Def::TypeAlias", "AssocItem::TypeAlias"} -> "TypeAlias"
      [] k \in {"Def::Variant"} -> "Variant"

\* C7: when the path around the located generic argument list resolves to a
\* kind that is no generic definition (local, module, constant, static,
\* macro, built-in type, associated constant, type or const parameter,
\* self type, tool or attribute), generics_for_token returns none wherever
\* the token is in the list; a definition is returned for that path only
\* when it resolves to an ADT, function, trait, type alias, enum variant,
\* associated function or associated type alias, and is that definition.
C7_UnsupportedResolutions ==
    op = "generics_for_token" =>
        LET lists == EnclosingGenericLists
        IN  lists # {} =>
              LET paths == PathsAbove(Innermost(lists))
              IN  paths # {} =>
                    LET res == sema.resolve_path[Innermost(paths)]
                    IN  /\ (IsSome(res) /\ res[1].kind \in OtherResolutions) => out = None
                        /\ IsSome(out) => /\ IsSome(res)
                                          /\ res[1].kind \in GenericResolutions
                                          /\ out[1].generic_def
                                               = GenericDef(VariantOf(res[1].kind), res[1].item)

\* C7 witness: the path resolves to a local, the token is after the first
\* generic argument, and the result is none.
C7_Witness ==
    /\ op = "generics_for_token"
    /\ out = None
    /\ LET lists == EnclosingGenericLists
       IN  /\ lists # {}
           /\ Completed(Innermost(lists), GenericArgKinds) # {}
           /\ LET paths == PathsAbove(Innermost(lists))
              IN  /\ paths # {}
                  /\ sema.resolve_path[Innermost(paths)]
                       \in { Some(PathResolution("Local", it)) : it \in {Item(Innermost(paths), 0)} }

\* The generic definition the target of the list at l resolves to: the path
\* around the list if there is one, else the method call the list is the
\* child of.
Target(l) ==
    LET paths == PathsAbove(l)
    IN  IF paths # {}
        THEN LET res == sema.resolve_path[Innermost(paths)]
             IN  IF IsSome(res) /\ res[1].kind \in GenericResolutions
                 THEN Some(GenericDef(VariantOf(res[1].kind), res[1].item))
                 ELSE None
        ELSE IF KindAt(ParentOf(l)) = "METHOD_CALL_EXPR"
        THEN LET m == sema.resolve_method_call[ParentOf(l)]
             IN  IF IsSome(m) THEN Some(GenericDef("Function", m[1])) ELSE None
        ELSE None

\* C8: generics_for_token does not check the index against the number of
\* generic parameters the definition declares: whenever the target resolves
\* to a generic definition, it returns that definition and the number of
\* completed generic arguments, however many parameters are declared.
C8_NoIndexValidation ==
    op = "generics_for_token" =>
        LET lists == EnclosingGenericLists
        IN  lists # {} =>
              LET l == Innermost(lists)
                  target == Target(l)
              IN  IsSome(target) =>
                    out = Some([generic_def |-> target[1],
                                active_param |-> Cardinality(Completed(l, GenericArgKinds))])

\* C8 witness: a definition returned with an index at or above the number
\* of generic parameters it declares.
C8_Witness ==
    /\ op = "generics_for_token"
    /\ IsSome(out)
    /\ out[1].generic_def.item.generic_params >= 1
    /\ out[1].active_param >= out[1].generic_def.item.generic_params

\* C9: a result of callable_for_token always carries an index, between 0 and
\* the number of arguments of the located argument list: a call-like
\* ancestor without argument list is skipped, never reported without index.
C9_IndexPresent ==
    (op = "callable_for_token" /\ IsSome(out)) =>
        /\ IsSome(out[1].active_param)
        /\ KidsOfKind(SiteOf(out[1].callable), {"ARG_LIST"}) # {}
        /\ out[1].active_param[1]
             <= Cardinality(KidsOfKind(TheArgList(SiteOf(out[1].callable)), ExprKinds))

\* C9 witness: a result for a token that is also inside a method call
\* without argument list, which resolves.
C9_Witness ==
    /\ op = "callable_for_token"
    /\ IsSome(out)
    /\ \E p \in CallLike : KidsOfKind(p, {"ARG_LIST"}) = {} /\ IsSome(ResolutionOf(p))

\* C10: callable_for_token answers with the resolution of the innermost
\* call whose argument list contains the token and with nothing else: none
\* when that call does not resolve, also when an outer such call resolves.
C10_NoFallback ==
    op = "callable_for_token" =>
        LET calls == EnclosingCalls
        IN  calls # {} =>
              LET inner == ResolutionOf(Innermost(calls))
              IN  IF IsSome(inner) THEN IsSome(out) /\ out[1].callable = inner[1]
                  ELSE out = None

\* C10 witness: the innermost call does not resolve, an outer one does, and
\* the result is none.
C10_Witness ==
    /\ op = "callable_for_token"
    /\ out = None
    /\ LET calls == EnclosingCalls
       IN  /\ Cardinality(calls) >= 2
           /\ ~IsSome(ResolutionOf(Innermost(calls)))
           /\ \E p \in calls : IsSome(ResolutionOf(p))

====
